---- MODULE Spec2Model ----
(***************************************************************************)
(* Model of express-jobly/helpers/sql.js: sqlForPartialUpdate, the builder *)
(* of the SET clause of a parameterized SQL UPDATE.                        *)
(*                                                                         *)
(* JavaScript strings are TLA+ strings (Len, SubSeq and \o act on their    *)
(* characters).  Every other JavaScript value is a record tagged by its    *)
(* type.  An object is its own enumerable string-keyed properties: `ins`   *)
(* is the sequence of its keys in the order they were inserted, `val` the  *)
(* value of each key.                                                      *)
(***************************************************************************)
EXTENDS Integers, Sequences, FiniteSets

VARIABLES dataToUpdate, jsToSql, pc, outcome, saved

vars == <<dataToUpdate, jsToSql, pc, outcome, saved>>

(* ------------------------------ bounds -------------------------------- *)

\* Largest number of keys of the enumerated updateData objects.
MaxKeys == 2

\* Number of keys of the one long updateData object (two-digit placeholders).
LongLen == 11

(* -------------------------- JavaScript values ------------------------- *)

Undefined == [type |-> "undefined"]

Str(s) == [type |-> "string", str |-> s]

Num(n) == [type |-> "number", num |-> n]

\* A built-in function object, such as Object.prototype.constructor.
Fn(name) == [type |-> "function", name |-> name]

Obj(ins, val) == [type |-> "object", ins |-> ins, val |-> val]

EmptyObject == Obj(<<>>, <<>>)

Char(s, i) == SubSeq(s, i, i)

Range(f) == {f[i] : i \in DOMAIN f}

\* The object literal {k1: v1, k2: v2, ...} from its keys and values in order.
Literal(ks, vs) == Obj(ks, [k \in Range(ks) |-> vs[CHOOSE i \in DOMAIN ks : ks[i] = k]])

(* ------------------- property order of Object.keys -------------------- *)

Digits == {"0", "1", "2", "3", "4", "5", "6", "7", "8", "9"}

RECURSIVE LexLess(_, _)
\* a < b for two digit strings of the same length, character by character.
LexLess(a, b) ==
  IF Len(a) = 0 THEN FALSE
  ELSE IF Head(a) = Head(b) THEN LexLess(Tail(a), Tail(b))
  ELSE \E i, j \in 1..10 : /\ Char("0123456789", i) = Head(a)
                           /\ Char("0123456789", j) = Head(b)
                           /\ i < j

\* a < b as numbers, for two canonical numeric strings.
NumLess(a, b) == Len(a) < Len(b) \/ (Len(a) = Len(b) /\ LexLess(a, b))

\* An array index: the canonical decimal string of an integer in 0..2^32-2.
IsArrayIndex(s) ==
  /\ Len(s) >= 1
  /\ \A i \in 1..Len(s) : Char(s, i) \in Digits
  /\ Len(s) > 1 => Head(s) # "0"
  /\ NumLess(s, "4294967295")

RECURSIVE Ascending(_)
\* The array-index keys of a set, in ascending numeric order.
Ascending(S) ==
  IF S = {} THEN <<>>
  ELSE LET m == CHOOSE x \in S : \A y \in S \ {x} : NumLess(x, y)
       IN <<m>> \o Ascending(S \ {m})

\* Variant: the keys in plain insertion order, array indices not moved.
InsertionOrderKeys(obj) == obj.ins

\* Object.keys(obj): own keys, array indices first in ascending numeric
\* order, then the other string keys in insertion order.
ObjectKeys(obj) ==
  LET NotIndex(k) == ~IsArrayIndex(k)
  IN Ascending({k \in Range(obj.ins) : IsArrayIndex(k)}) \o SelectSeq(obj.ins, NotIndex)

\* Variant: the values in plain insertion order.
ValuesInInsertionOrder(obj) == [i \in 1..Len(obj.ins) |-> obj.val[obj.ins[i]]]

\* Object.values(obj): the values of the own keys, in the order of Object.keys.
ObjectValues(obj) ==
  LET keys == ObjectKeys(obj) IN [i \in 1..Len(keys) |-> obj.val[keys[i]]]

(* ------------------------- property lookup ---------------------------- *)

\* The properties every plain object inherits from Object.prototype.
ObjectPrototype ==
  {"constructor", "toString", "valueOf", "hasOwnProperty", "isPrototypeOf",
   "propertyIsEnumerable", "toLocaleString"}

HasOwn(obj, key) == key \in Range(obj.ins)

\* obj[key] for an object: the own property, else the inherited one, else
\* undefined.
Get(obj, key) ==
  IF HasOwn(obj, key) THEN obj.val[key]
  ELSE IF key \in ObjectPrototype
       THEN Fn(IF key = "constructor" THEN "Object" ELSE key)
       ELSE Undefined

\* Truthiness, as `||` tests it.
ToBoolean(v) ==
  CASE v.type = "undefined" -> FALSE
    [] v.type = "string" -> v.str # ""
    [] v.type = "number" -> v.num # 0
    [] OTHER -> TRUE

RECURSIVE Dec(_)
\* The decimal digits of a natural number.
Dec(n) ==
  IF n < 10 THEN Char("0123456789", n + 1)
  ELSE Dec(n \div 10) \o Char("0123456789", (n % 10) + 1)

\* String conversion inside a template literal.
ToString(v) ==
  CASE v.type = "string" -> v.str
    [] v.type = "number" -> Dec(v.num)
    [] v.type = "undefined" -> "undefined"
    [] v.type = "function" -> "function " \o v.name \o "() { [native code] }"
    [] OTHER -> "[object Object]"

\* a || b
Or(a, b) == IF ToBoolean(a) THEN a ELSE b

(* ------------------------ sqlForPartialUpdate ------------------------- *)

Throw(error, message) == [kind |-> "throw", error |-> error, message |-> message]

\* The returned object; `cols` records the local array the clause is joined
\* from.
Return(cols, setCols, values) ==
  [kind |-> "return", cols |-> cols, setCols |-> setCols, values |-> values]

NoOutcome == [kind |-> "none"]

\* ${jsToSql[colName] || colName}
ColumnName(mapping, colName) == ToString(Or(Get(mapping, colName), Str(colName)))

\* Variant: the column name left unquoted.
FragmentUnquoted(mapping, colName, idx) ==
  ColumnName(mapping, colName) \o "=$" \o Dec(idx + 1)

\* `"${jsToSql[colName] || colName}"=$${idx + 1}`, idx 0-based
Fragment(mapping, colName, idx) ==
  "\"" \o ColumnName(mapping, colName) \o "\"=$" \o Dec(idx + 1)

\* Variant: the values written into the SQL text instead of placeholders.
ColsInline(data, mapping) ==
  LET keys == ObjectKeys(data)
  IN [i \in 1..Len(keys) |->
        "\"" \o ColumnName(mapping, keys[i]) \o "\"='" \o ToString(data.val[keys[i]]) \o "'"]

\* Variant: the placeholder counter carried over from an earlier call.
ColsCarried(data, mapping) ==
  LET keys == ObjectKeys(data)
      base == IF saved.kind = "call" /\ saved.outcome.kind = "return"
              THEN Len(saved.outcome.values) ELSE 0
  IN [i \in 1..Len(keys) |-> Fragment(mapping, keys[i], base + i - 1)]

\* keys.map((colName, idx) => ...)
Cols(data, mapping) ==
  LET keys == ObjectKeys(data)
  IN [i \in 1..Len(keys) |-> Fragment(mapping, keys[i], i - 1)]

RECURSIVE JoinTrailing(_, _)
\* Variant: the separator written after every fragment, the last included.
JoinTrailing(cols, sep) ==
  IF Len(cols) = 0 THEN "" ELSE cols[1] \o sep \o JoinTrailing(Tail(cols), sep)

RECURSIVE Join(_, _)
\* cols.join(sep)
Join(cols, sep) ==
  IF Len(cols) = 0 THEN ""
  ELSE IF Len(cols) = 1 THEN cols[1]
  ELSE cols[1] \o sep \o Join(Tail(cols), sep)

\* Variant: the mapping read before the keys are counted.
sqlForPartialUpdateLateCheck(data, mapping) ==
  IF mapping.type = "undefined" THEN Throw("TypeError", "Cannot read properties of undefined")
  ELSE IF Len(ObjectKeys(data)) = 0 THEN Throw("BadRequestError", "No data")
  ELSE Return(Cols(data, mapping), Join(Cols(data, mapping), ", "), ObjectValues(data))

\* The outcome of sqlForPartialUpdate(dataToUpdate, jsToSql).  Reading a
\* property of an undefined jsToSql throws a TypeError.
sqlForPartialUpdate(data, mapping) ==
  LET keys == ObjectKeys(data)
  IN IF Len(keys) = 0 THEN Throw("BadRequestError", "No data")
     ELSE IF mapping.type = "undefined"
          THEN Throw("TypeError", "Cannot read properties of undefined")
          ELSE LET cols == Cols(data, mapping)
               IN Return(cols, Join(cols, ", "), ObjectValues(data))

(* ------------------------------ inputs -------------------------------- *)

\* Keys of updateData: a plain name, a name holding a comma, two array
\* indices, a non-canonical number and a name Object.prototype defines.
KeyPool == {"age", "b,c", "2", "1", "constructor"}

ValuePool == {Str("Aliya"), Num(32)}

\* Column names a mapping can give: a plain one, one holding a comma, and
\* the falsy values "" and 0.
ColumnPool == {Str("first_name"), Str("p,q"), Str(""), Num(0)}

\* The sequences without repetition over S, of length at most n.
RECURSIVE DistinctSeqs(_, _)
DistinctSeqs(S, n) ==
  IF n = 0 THEN {<<>>}
  ELSE LET shorter == DistinctSeqs(S, n - 1)
       IN shorter \cup {Append(q, k) : q \in {r \in shorter : Len(r) = n - 1},
                                       k \in S}

KeySeqs(S, n) == {q \in DistinctSeqs(S, n) : \A i, j \in DOMAIN q : q[i] = q[j] => i = j}

Objects(S, V, n) == UNION {{Obj(q, val) : val \in [Range(q) -> V]} : q \in KeySeqs(S, n)}

\* {a: 'Aliya', b: 32, c: 'Aliya', ...} with LongLen keys.
LongData ==
  Literal([i \in 1..LongLen |-> Char("abcdefghijklmnopqrstuvwxyz", i)],
          [i \in 1..LongLen |-> IF i % 2 = 1 THEN Str("Aliya") ELSE Num(32)])

\* The objects of the usage example and of the documented scenarios.
ExampleData ==
  { Literal(<<"firstName", "age">>, <<Str("Aliya"), Num(32)>>),
    Literal(<<"numEmployees", "logoUrl">>, <<Num(10), Str("x.png")>>) }

ExampleMappings ==
  { Literal(<<"firstName">>, <<Str("first_name")>>),
    Literal(<<"numEmployees", "logoUrl">>, <<Str("num_employees"), Str("logo_url")>>) }

AllData == Objects(KeyPool, ValuePool, MaxKeys) \cup {LongData} \cup ExampleData

\* An absent mapping, the empty mapping, every one-entry mapping and the
\* example mappings.
AllMappings ==
  {Undefined, EmptyObject}
    \cup {Literal(<<k>>, <<c>>) : k \in KeyPool, c \in ColumnPool}
    \cup ExampleMappings

PairData == Objects({"age", "2", "1"}, ValuePool, MaxKeys)

PairMappings == {Undefined, EmptyObject, Literal(<<"age">>, <<Str("first_name")>>)}

(* --------------------------- state machine ---------------------------- *)

NoCall == [kind |-> "none"]

TypeOK ==
  /\ dataToUpdate \in AllData
  /\ jsToSql \in AllMappings
  /\ pc \in {"call", "done"}
  /\ outcome.kind \in {"none", "throw", "return"}
  /\ saved.kind \in {"none", "call"}

\* A caller holds the two arguments and is about to call.
Prepare(D, M) ==
  /\ dataToUpdate \in D
  /\ jsToSql \in M
  /\ pc = "call"
  /\ outcome = NoOutcome

Init == Prepare(AllData, AllMappings) /\ saved = NoCall

InitPair == Prepare(PairData, PairMappings) /\ saved = NoCall

\* Variant: the fallback column name cached in the caller's mapping.
InvokeCaching ==
  /\ pc = "call"
  /\ outcome' = sqlForPartialUpdate(dataToUpdate, jsToSql)
  /\ pc' = "done"
  /\ jsToSql' = IF jsToSql.type = "object" /\ Len(ObjectKeys(dataToUpdate)) > 0
                THEN LET keys == ObjectKeys(dataToUpdate)
                         add == SelectSeq(keys, LAMBDA k : ~HasOwn(jsToSql, k))
                     IN Obj(jsToSql.ins \o add,
                            [k \in Range(jsToSql.ins) \cup Range(add) |->
                               IF HasOwn(jsToSql, k) THEN jsToSql.val[k] ELSE Str(k)])
                ELSE jsToSql
  /\ UNCHANGED <<dataToUpdate, saved>>

\* One call of sqlForPartialUpdate, from entry to its return or throw.
Invoke ==
  /\ pc = "call"
  /\ outcome' = sqlForPartialUpdate(dataToUpdate, jsToSql)
  /\ pc' = "done"
  /\ UNCHANGED <<dataToUpdate, jsToSql, saved>>

\* The caller makes its next call, with new arguments.
Again(D, M) ==
  /\ pc = "done"
  /\ dataToUpdate' \in D
  /\ jsToSql' \in M
  /\ pc' = "call"
  /\ outcome' = NoOutcome
  /\ UNCHANGED saved

\* The caller keeps the arguments and the outcome of the call just made, to
\* compare a later call with.
Keep ==
  /\ pc = "done"
  /\ saved = NoCall
  /\ saved' = [kind |-> "call", data |-> dataToUpdate, mapping |-> jsToSql,
               outcome |-> outcome]
  /\ UNCHANGED <<dataToUpdate, jsToSql, pc, outcome>>

CallAgainPair == Again(PairData, PairMappings)

Next == Invoke

NextPair == Invoke \/ CallAgainPair \/ Keep

\* Single calls over the full input sets.
Spec == Init /\ [][Next]_vars

\* Pairs of calls, over the smaller input sets.
SpecPair == InitPair /\ [][NextPair]_vars

(* ------------------------------ claims -------------------------------- *)

Returned == pc = "done" /\ outcome.kind = "return"

Raised(error) == pc = "done" /\ outcome.kind = "throw" /\ outcome.error = error

NonEmpty(obj) == obj.ins # <<>>

StartsWith(s, t) == Len(s) >= Len(t) /\ SubSeq(s, 1, Len(t)) = t

EndsWith(s, t) == Len(s) >= Len(t) /\ SubSeq(s, Len(s) - Len(t) + 1, Len(s)) = t

RECURSIVE Count(_, _)
\* The number of occurrences of the character c in s.
Count(s, c) ==
  IF Len(s) = 0 THEN 0 ELSE (IF Head(s) = c THEN 1 ELSE 0) + Count(Tail(s), c)

\* The number of pieces s.split(",") gives.
Pieces(s) == 1 + Count(s, ",")

RECURSIVE Sum(_)
Sum(q) == IF Len(q) = 0 THEN 0 ELSE Head(q) + Sum(Tail(q))

\* Where the i-th fragment begins in a clause of fragments of the lengths of
\* cols, two separator characters between neighbours.
Start(cols, i) == 1 + Sum([j \in 1..(i - 1) |-> Len(cols[j]) + 2])

\* The i-th fragment, read out of the clause text.
FragmentOf(setCols, cols, i) ==
  SubSeq(setCols, Start(cols, i), Start(cols, i) + Len(cols[i]) - 1)

\* The column name the documentation gives key k: the mapped value when k
\* is a key of the mapping, else k.
DocumentedName(mapping, k) ==
  IF HasOwn(mapping, k) THEN ToString(mapping.val[k]) ELSE k

\* C1: a call with an updateData of zero keys raises BadRequestError
\* ("No data"), whatever the nameMapping is (entries, empty, or absent),
\* and returns nothing.
C1_EmptyDataRaisesInvalidInput ==
  (pc = "done" /\ ~NonEmpty(dataToUpdate)) =>
     outcome = Throw("BadRequestError", "No data")

C1_Witness ==
  Raised("BadRequestError") /\ dataToUpdate = EmptyObject /\ jsToSql = Undefined

\* C2: a call with a non-empty updateData and an empty or absent
\* nameMapping returns a result whose every column name is the key itself,
\* and BadRequestError on empty updateData is the only error ever raised.
C2_EmptyOrAbsentMappingAccepted ==
  /\ (pc = "done" /\ NonEmpty(dataToUpdate) /\ jsToSql \in {Undefined, EmptyObject}) =>
        /\ outcome.kind = "return"
        /\ LET keys == ObjectKeys(dataToUpdate)
           IN \A i \in 1..Len(keys) :
                 outcome.cols[i] = "\"" \o keys[i] \o "\"=$" \o Dec(i)
  /\ (pc = "done" /\ outcome.kind = "throw") =>
        (outcome.error = "BadRequestError" /\ ~NonEmpty(dataToUpdate))

\* C3: in a returned result the fragment of a key that is a key of
\* nameMapping names the mapped value, whatever it is, and the fragment of
\* any other key names the key itself.
C3_MappedNameByKeyPresence ==
  Returned =>
    LET keys == ObjectKeys(dataToUpdate)
    IN \A i \in 1..Len(keys) :
          outcome.cols[i] =
            "\"" \o DocumentedName(jsToSql, keys[i]) \o "\"=$" \o Dec(i)

\* C4: in a returned result the i-th fragment of setCols (counting from 1)
\* carries the placeholder $i and names the column of the i-th key of
\* updateData in iteration order, and values[i] is the value updateData
\* holds for that key.
C4_PlaceholderMatchesValue ==
  Returned =>
    LET keys == ObjectKeys(dataToUpdate)
    IN /\ Len(outcome.cols) = Len(keys)
       /\ DOMAIN outcome.values = 1..Len(keys)
       /\ \A i \in 1..Len(keys) :
            LET frag == FragmentOf(outcome.setCols, outcome.cols, i)
            IN /\ StartsWith(frag, "\"" \o ColumnName(jsToSql, keys[i]) \o "\"")
               /\ EndsWith(frag, "=$" \o Dec(i))
               /\ outcome.values[i] = dataToUpdate.val[keys[i]]

\* Two keys in iteration order whose values differ, the second an array
\* index inserted first.
C4_Witness ==
  /\ Returned
  /\ dataToUpdate = Literal(<<"age", "1">>, <<Str("Aliya"), Num(32)>>)
  /\ outcome.values = <<Num(32), Str("Aliya")>>

\* C5 (as claimed): in a returned result values.length equals the number of
\* keys of updateData and the number of pieces setCols splits into at its
\* commas, also when a key or a mapped column name holds a comma.
C5_PiecesEqualValues ==
  Returned =>
    /\ Len(outcome.values) = Cardinality(Range(dataToUpdate.ins))
    /\ Pieces(outcome.setCols) = Len(outcome.values)

\* C5 (amended): in a returned result values.length equals the number of
\* keys of updateData, and setCols splits at its commas into that many
\* pieces plus one more for every comma inside a column name it writes; so
\* the two counts agree exactly when no written column name holds a comma.
C5_PiecesEqualValuesPlusNameCommas ==
  Returned =>
    LET keys == ObjectKeys(dataToUpdate)
    IN /\ Len(outcome.values) = Cardinality(Range(dataToUpdate.ins))
       /\ Pieces(outcome.setCols) =
            Len(outcome.values)
              + Sum([i \in 1..Len(keys) |-> Count(ColumnName(jsToSql, keys[i]), ",")])

\* A key with a comma beside a mapped name with a comma: 2 values, 4 pieces.
C5_Witness ==
  /\ Returned
  /\ dataToUpdate.ins = <<"b,c", "age">>
  /\ jsToSql = Literal(<<"age">>, <<Str("p,q")>>)
  /\ Len(outcome.values) = 2
  /\ Pieces(outcome.setCols) = 4

\* C6 (as claimed): the fragments and the values of a returned result
\* follow the insertion order of the keys of updateData, for every kind of
\* key, array-index keys such as "2" and "1" included.
C6_InsertionOrder ==
  Returned =>
    LET ins == dataToUpdate.ins
    IN /\ outcome.cols = [i \in 1..Len(ins) |-> Fragment(jsToSql, ins[i], i - 1)]
       /\ outcome.values = [i \in 1..Len(ins) |-> dataToUpdate.val[ins[i]]]

\* The place of key k in the insertion order of obj.
InsertedAt(obj, k) == CHOOSE i \in DOMAIN obj.ins : obj.ins[i] = k

\* Key a comes before key b in the property order of obj: array indices
\* by ascending number, before every other key; the other keys by insertion.
Precedes(obj, a, b) ==
  CASE IsArrayIndex(a) /\ IsArrayIndex(b) -> NumLess(a, b)
    [] IsArrayIndex(a) /\ ~IsArrayIndex(b) -> TRUE
    [] ~IsArrayIndex(a) /\ IsArrayIndex(b) -> FALSE
    [] OTHER -> InsertedAt(obj, a) < InsertedAt(obj, b)

\* C6 (amended): the fragments and the values of a returned result follow
\* the property order of updateData: the array-index keys in ascending
\* numeric order first, then the other keys in insertion order; two keys
\* that are not array indices keep their insertion order.
C6_PropertyOrder ==
  Returned =>
    \E ord \in {ObjectKeys(dataToUpdate)} :
       /\ Len(ord) = Len(dataToUpdate.ins)
       /\ Range(ord) = Range(dataToUpdate.ins)
       /\ \A i, j \in 1..Len(ord) : i < j => Precedes(dataToUpdate, ord[i], ord[j])
       /\ outcome.cols = [i \in 1..Len(ord) |-> Fragment(jsToSql, ord[i], i - 1)]
       /\ outcome.values = [i \in 1..Len(ord) |-> dataToUpdate.val[ord[i]]]

\* "2" inserted before "1" with different values: "1" comes out first.
C6_Witness ==
  /\ Returned
  /\ dataToUpdate = Literal(<<"2", "1">>, <<Str("Aliya"), Num(32)>>)
  /\ outcome.values = <<Num(32), Str("Aliya")>>
  /\ jsToSql = EmptyObject
  /\ outcome.setCols = "\"1\"=$1, \"2\"=$2"

C8_ValuesNotInClause ==
  (/\ Returned
   /\ saved.kind = "call"
   /\ saved.outcome.kind = "return"
   /\ saved.mapping = jsToSql
   /\ ObjectKeys(saved.data) = ObjectKeys(dataToUpdate))
    => saved.outcome.setCols = outcome.setCols

\* Two such calls whose values differ at every key.
C8_Witness ==
  /\ Returned
  /\ saved.kind = "call"
  /\ saved.outcome.kind = "return"
  /\ saved.mapping = jsToSql
  /\ dataToUpdate.ins = <<"age", "1">>
  /\ saved.data.ins = dataToUpdate.ins
  /\ \A k \in Range(dataToUpdate.ins) : saved.data.val[k] # dataToUpdate.val[k]
  /\ saved.outcome.values # outcome.values
  /\ saved.outcome.setCols = outcome.setCols

====
